---- MODULE Spec2Model ----
(***************************************************************************)
(* Model of the award-engine calculation pipeline: the /calculate handler  *)
(* (api/handlers.rs), perform_calculation and the rule functions it calls  *)
(* (calculation/*.rs), over the read-only rule table (config/*.rs).        *)
(*                                                                         *)
(* Representation                                                          *)
(*  - A NaiveDateTime is a number of seconds since Monday 00:00:00 of the   *)
(*    modelled week; a NaiveDate is a day number (0 = Monday).             *)
(*  - A rust_decimal::Decimal is a fixed-point integer counting units of   *)
(*    1/DecUnit.  Decimal equality in the code is numeric, so the scale of *)
(*    a value is not part of the model.  A quotient or a product that is   *)
(*    not representable is rounded to the nearest unit (ties to even), as  *)
(*    the library rounds at its last fractional digit.                     *)
(*  - An audit step keeps, in input/output, the decimals whose normalised  *)
(*    text the code writes (two normalised texts are equal exactly when    *)
(*    the decimals are numerically equal).                                 *)
(***************************************************************************)
EXTENDS Integers, Sequences, FiniteSets, TLC

-----------------------------------------------------------------------------
(* Bounds of the model *)

\* longest shift list of a request
MaxShifts == 2

\* pure-function probes of detect_daily_overtime: worked hours range over
\* -2h .. MaxProbeHalfHours/2 h in half-hour steps
MaxProbeHalfHours == 24

\* the dates of the direct calls of get_base_rate run from day 0 to this day,
\* the instants of the direct calls of segment_by_day from Friday to this day
MaxProbeDate == 7

\* longest shift list of each of two requests calculated at once
MaxParallelShifts == 1

\* the most segments of a shift of a request (Friday 22:00 to Sunday 02:00 has 3)
MaxSegments == 3

-----------------------------------------------------------------------------
(* Decimal arithmetic *)

\* resolution of a Decimal: one hour, one dollar or a multiplier of 1 is DecUnit
DecUnit == 1000

Abs(x) == IF x < 0 THEN -x ELSE x

Sgn(x) == IF x < 0 THEN -1 ELSE 1

\* n / d for n >= 0, d > 0, rounded to the nearest integer, ties to even
RoundHalfEven(n, d) ==
    LET q == n \div d
        r == n % d
    IN  IF 2 * r > d \/ (2 * r = d /\ q % 2 = 1) THEN q + 1 ELSE q

\* Decimal::new(n, 0)
DecNew(n) == n * DecUnit

\* Decimal::new(n, 0) / Decimal::new(d, 0)
DecDiv(n, d) == Sgn(n) * Sgn(d) * RoundHalfEven(Abs(n) * DecUnit, Abs(d))

\* a * b for Decimals a and b
DecMul(a, b) == Sgn(a) * Sgn(b) * RoundHalfEven(Abs(a) * Abs(b), DecUnit)

\* integer division truncating toward zero (i64 `/`, Duration::num_minutes)
TruncDiv(a, b) == Sgn(a) * (Abs(a) \div b)

-----------------------------------------------------------------------------
(* Calendar *)

SecondsPerDay == 86400

\* the timestamp of day d at h:m:s
At(d, h, m, s) == d * SecondsPerDay + h * 3600 + m * 60 + s

\* NaiveDateTime::date
DateOf(t) == t \div SecondsPerDay

\* (end - start).num_minutes()
num_minutes(start, end) == TruncDiv(end - start, 60)

\* get_day_type: Saturday and Sunday by calendar weekday, Weekday otherwise
get_day_type(datetime) ==
    LET wd == DateOf(datetime) % 7
    IN  IF wd = 5 THEN "Saturday" ELSE IF wd = 6 THEN "Sunday" ELSE "Weekday"

-----------------------------------------------------------------------------
(* The rule table *)

Classified == {"dce_level_3", "dce_level_1"}

\* the rate files in the order the directory listing returns them
rate_files ==
    << [effective_date |-> 4,
        rates |-> [c \in {"dce_level_3"} |-> [hourly |-> 20 * DecUnit]],
        allowances |-> [laundry_per_shift |-> 800, laundry_per_week |-> 1490]],
       [effective_date |-> 2,
        rates |-> [c \in {"dce_level_3", "dce_level_1"} |-> [hourly |-> 16 * DecUnit]],
        allowances |-> [laundry_per_shift |-> 320, laundry_per_week |-> 1490]] >>

RECURSIVE InsertByDate(_, _)
InsertByDate(sorted, rc) ==
    IF sorted = << >> THEN << rc >>
    ELSE IF Head(sorted).effective_date <= rc.effective_date
         THEN << Head(sorted) >> \o InsertByDate(Tail(sorted), rc)
         ELSE << rc >> \o sorted

RECURSIVE SortByDate(_)
SortByDate(rates) ==
    IF rates = << >> THEN << >>
    ELSE InsertByDate(SortByDate(SubSeq(rates, 1, Len(rates) - 1)), rates[Len(rates)])

ByEmployment(ft, pt, cas) == [FullTime |-> ft, PartTime |-> pt, Casual |-> cas]

penalty_config ==
    [penalties |->
        [saturday |-> ByEmployment(1500, 1500, 1750),
         sunday   |-> ByEmployment(1750, 1750, 2000)],
     overtime |->
        [daily_threshold_hours |-> 8,
         weekday |-> [first_two_hours |-> ByEmployment(1500, 1500, 1875),
                      after_two_hours |-> ByEmployment(2000, 2000, 2500)],
         weekend |-> [clause   |-> "25.1(a)(i)(B)",
                      saturday |-> ByEmployment(2000, 2000, 2500),
                      sunday   |-> ByEmployment(2000, 2000, 2500)]]]

\* AwardConfig::new with the rate entries kept in the order given
AwardConfigNewUnsorted(classifications, rates, penalties) ==
    [classifications |-> classifications,
     rates |-> rates,
     penalties |-> penalties]

\* AwardConfig::new: the rate entries are kept sorted by effective date
AwardConfigNew(classifications, rates, penalties) ==
    [classifications |-> classifications,
     rates |-> SortByDate(rates),
     penalties |-> penalties]

award_config == AwardConfigNew(Classified, rate_files, penalty_config)

\* the index of the last entry with effective_date <= date, 0 if there is none
RFindRate(rates, date) ==
    LET hits == {i \in 1..Len(rates) : rates[i].effective_date <= date}
    IN  IF hits = {} THEN 0 ELSE CHOOSE i \in hits : \A j \in hits : j <= i

Ok(v) == [ok |-> TRUE, value |-> v]

Err(kind) == [ok |-> FALSE, error |-> kind]

\* ConfigLoader::get_classification
get_classification(config, code) ==
    IF code \in config.classifications THEN Ok(code) ELSE Err("ClassificationNotFound")

\* ConfigLoader::get_allowance_rates
get_allowance_rates(config, date) ==
    LET i == RFindRate(config.rates, date)
    IN  IF i = 0 THEN Err("ConfigNotFound")
        ELSE Ok([laundry_per_shift |-> config.rates[i].allowances.laundry_per_shift,
                 laundry_per_week  |-> config.rates[i].allowances.laundry_per_week])

-----------------------------------------------------------------------------
(* Rule functions *)

AuditStep(step_number, rule_id, clause_ref, input, output) ==
    [step_number |-> step_number, rule_id |-> rule_id, clause_ref |-> clause_ref,
     input |-> input, output |-> output]

NoRate == -1

\* Employee::is_casual
is_casual(employee) == employee.employment_type = "Casual"

\* get_base_rate: the override if the employee carries one, else the hourly
\* rate of the latest rate entry effective on or before effective_date
get_base_rate(employee, effective_date, config, step_number) ==
    IF employee.base_hourly_rate # NoRate
    THEN Ok([rate |-> employee.base_hourly_rate,
             audit_step |-> AuditStep(step_number, "base_rate_lookup", "14.2",
                 [classification_code |-> employee.classification_code,
                  employee_override_rate |-> employee.base_hourly_rate,
                  effective_date |-> effective_date],
                 [rate |-> employee.base_hourly_rate, source |-> "employee_override"])])
    ELSE IF employee.classification_code \notin config.classifications
    THEN Err("ClassificationNotFound")
    ELSE LET i == RFindRate(config.rates, effective_date)
         IN  IF i = 0 THEN Err("RateNotFound")
             ELSE IF employee.classification_code \notin DOMAIN config.rates[i].rates
             THEN Err("RateNotFound")
             ELSE LET rate == config.rates[i].rates[employee.classification_code].hourly
                  IN  Ok([rate |-> rate,
                          audit_step |-> AuditStep(step_number, "base_rate_lookup", "14.2",
                              [classification_code |-> employee.classification_code,
                               effective_date |-> effective_date],
                              [rate |-> rate, source |-> "config",
                               rate_effective_date |-> config.rates[i].effective_date])])

\* casual_loading_multiplier: 1.25
casual_loading_multiplier == 1250

\* apply_casual_loading with the loading applied whatever the employment type
apply_casual_loading_everyone(base_rate, employee, step_number) ==
    LET loaded_rate == DecMul(base_rate, casual_loading_multiplier)
    IN  [loaded_rate |-> loaded_rate,
         audit_step |-> AuditStep(step_number, "casual_loading", "10.4(b)",
             [base_rate |-> base_rate, employment_type |-> employee.employment_type],
             [loaded_rate |-> loaded_rate, loading_applied |-> TRUE,
              multiplier |-> casual_loading_multiplier])]

\* apply_casual_loading
apply_casual_loading(base_rate, employee, step_number) ==
    IF is_casual(employee)
    THEN LET loaded_rate == DecMul(base_rate, casual_loading_multiplier)
         IN  [loaded_rate |-> loaded_rate,
              audit_step |-> AuditStep(step_number, "casual_loading", "10.4(b)",
                  [base_rate |-> base_rate, employment_type |-> employee.employment_type],
                  [loaded_rate |-> loaded_rate, loading_applied |-> TRUE,
                   multiplier |-> casual_loading_multiplier])]
    ELSE [loaded_rate |-> base_rate,
          audit_step |-> AuditStep(step_number, "casual_loading", "10.4(b)",
              [base_rate |-> base_rate, employment_type |-> employee.employment_type],
              [loaded_rate |-> base_rate, loading_applied |-> FALSE])]

\* DEFAULT_DAILY_OVERTIME_THRESHOLD: 8 hours
DEFAULT_DAILY_OVERTIME_THRESHOLD == 8000

\* the three textually distinct reasonings of detect_daily_overtime
DetectionReasoning(worked_hours, threshold, overtime_hours) ==
    IF overtime_hours > 0 THEN "exceeds"
    ELSE IF worked_hours = threshold THEN "equals" ELSE "under"

\* detect_daily_overtime with the ordinary hours left uncapped
detect_daily_overtime_uncapped(worked_hours, threshold, step_number) ==
    LET ordinary_hours == worked_hours
        overtime_hours == IF worked_hours > threshold THEN worked_hours - threshold ELSE 0
    IN  [ordinary_hours |-> ordinary_hours,
         overtime_hours |-> overtime_hours,
         audit_step |-> AuditStep(step_number, "daily_overtime_detection", "22.1(c), 25.1",
             [worked_hours |-> worked_hours, threshold |-> threshold],
             [ordinary_hours |-> ordinary_hours, overtime_hours |-> overtime_hours,
              reasoning |-> DetectionReasoning(worked_hours, threshold, overtime_hours)])]

\* detect_daily_overtime
detect_daily_overtime(worked_hours, threshold, step_number) ==
    LET ordinary_hours == IF worked_hours <= threshold THEN worked_hours ELSE threshold
        overtime_hours == IF worked_hours > threshold THEN worked_hours - threshold ELSE 0
    IN  [ordinary_hours |-> ordinary_hours,
         overtime_hours |-> overtime_hours,
         audit_step |-> AuditStep(step_number, "daily_overtime_detection", "22.1(c), 25.1",
             [worked_hours |-> worked_hours, threshold |-> threshold],
             [ordinary_hours |-> ordinary_hours, overtime_hours |-> overtime_hours,
              reasoning |-> DetectionReasoning(worked_hours, threshold, overtime_hours)])]

\* Break::duration_minutes
duration_minutes(b) == num_minutes(b.start_time, b.end_time)

RECURSIVE UnpaidBreakMinutes(_)
UnpaidBreakMinutes(breaks) ==
    IF breaks = << >> THEN 0
    ELSE (IF Head(breaks).is_paid THEN 0 ELSE duration_minutes(Head(breaks)))
         + UnpaidBreakMinutes(Tail(breaks))

\* Shift::worked_hours: span minus unpaid breaks, in whole minutes, over 60
worked_hours(shift) ==
    LET total_minutes == num_minutes(shift.start_time, shift.end_time)
        worked_minutes == total_minutes - UnpaidBreakMinutes(shift.breaks)
    IN  DecDiv(worked_minutes, 60)

\* calculate_hours
calculate_hours(start, end) == DecDiv(num_minutes(start, end), 60)

ShiftSegment(start, end) ==
    [start_time |-> start, end_time |-> end,
     day_type |-> get_day_type(start), hours |-> calculate_hours(start, end)]

\* the while loop of segment_by_day, with each segment put before the earlier ones
RECURSIVE SegmentLoopLatestFirst(_, _)
SegmentLoopLatestFirst(current_start, shift_end) ==
    IF ~(current_start < shift_end) THEN << >>
    ELSE LET next_midnight == (DateOf(current_start) + 1) * SecondsPerDay
             segment_end == IF next_midnight <= shift_end THEN next_midnight ELSE shift_end
             seg == ShiftSegment(current_start, segment_end)
         IN  SegmentLoopLatestFirst(segment_end, shift_end)
             \o (IF seg.hours > 0 THEN << seg >> ELSE << >>)

\* the while loop of segment_by_day
RECURSIVE SegmentLoop(_, _)
SegmentLoop(current_start, shift_end) ==
    IF ~(current_start < shift_end) THEN << >>
    ELSE LET next_midnight == (DateOf(current_start) + 1) * SecondsPerDay
             segment_end == IF next_midnight <= shift_end THEN next_midnight ELSE shift_end
             seg == ShiftSegment(current_start, segment_end)
         IN  (IF seg.hours > 0 THEN << seg >> ELSE << >>)
             \o SegmentLoop(segment_end, shift_end)

\* segment_by_day
segment_by_day(shift) ==
    IF DateOf(shift.start_time) = DateOf(shift.end_time) \/ shift.start_time = shift.end_time
    THEN LET seg == ShiftSegment(shift.start_time, shift.end_time)
         IN  IF seg.hours > 0 THEN << seg >> ELSE << >>
    ELSE SegmentLoop(shift.start_time, shift.end_time)

PayLine(date, shift_id, category, hours, rate, amount, clause_ref) ==
    [date |-> date, shift_id |-> shift_id, category |-> category, hours |-> hours,
     rate |-> rate, amount |-> amount, clause_ref |-> clause_ref]

\* calculate_ordinary_hours: base rate lookup for the shift's date, casual
\* loading, then a pay line over the shift's worked hours
calculate_ordinary_hours(shift, employee, config, start_step_number) ==
    LET base_rate_result == get_base_rate(employee, shift.date, config, start_step_number)
    IN  IF ~base_rate_result.ok THEN base_rate_result
        ELSE LET base_rate == base_rate_result.value.rate
                 casual_loading_result ==
                     apply_casual_loading(base_rate, employee, start_step_number + 1)
                 effective_rate == casual_loading_result.loaded_rate
                 current_step == start_step_number + 2
                 hours == worked_hours(shift)
                 amount == DecMul(hours, effective_rate)
                 category == IF is_casual(employee) THEN "OrdinaryCasual" ELSE "Ordinary"
                 multiplier == IF is_casual(employee) THEN casual_loading_multiplier
                               ELSE DecUnit
             IN  Ok([pay_line |-> PayLine(shift.date, shift.id, category, hours,
                                          effective_rate, amount, "22.1"),
                     audit_steps |->
                        << base_rate_result.value.audit_step,
                           casual_loading_result.audit_step,
                           AuditStep(current_step, "ordinary_hours_calculation", "22.1",
                               [shift_id |-> shift.id, shift_date |-> shift.date,
                                hours |-> hours, base_rate |-> base_rate,
                                effective_rate |-> effective_rate,
                                employment_type |-> employee.employment_type,
                                multiplier |-> multiplier],
                               [category |-> category, amount |-> amount,
                                pay_line |-> [hours |-> hours, rate |-> effective_rate,
                                              amount |-> amount]]) >>])

\* the weekend penalty applied on top of the casually loaded rate
WeekendPayOnLoadedRate(day, segment, employee, base_rate, config, step_number) ==
    LET row == IF day = "Saturday" THEN config.penalties.penalties.saturday
               ELSE config.penalties.penalties.sunday
        multiplier == row[employee.employment_type]
        category == IF is_casual(employee) THEN day \o "Casual" ELSE day
        clause_ref == IF ~is_casual(employee) THEN "23.1"
                      ELSE IF day = "Saturday" THEN "23.2(a)" ELSE "23.2(b)"
        effective_rate == DecMul(apply_casual_loading(base_rate, employee,
                                                      step_number).loaded_rate,
                                 multiplier)
        amount == DecMul(segment.hours, effective_rate)
    IN  [pay_line |-> PayLine(DateOf(segment.start_time), "", category, segment.hours,
                              effective_rate, amount, clause_ref),
         audit_step |-> AuditStep(step_number,
             IF day = "Saturday" THEN "saturday_penalty" ELSE "sunday_penalty", clause_ref,
             [hours |-> segment.hours, base_rate |-> base_rate,
              employment_type |-> employee.employment_type, day_type |-> day],
             [multiplier |-> multiplier, effective_rate |-> effective_rate,
              amount |-> amount, category |-> category])]

\* calculate_saturday_pay and calculate_sunday_pay, which differ in the
\* penalty row, the category and the casual clause only
WeekendPay(day, segment, employee, base_rate, config, step_number) ==
    LET row == IF day = "Saturday" THEN config.penalties.penalties.saturday
               ELSE config.penalties.penalties.sunday
        multiplier == row[employee.employment_type]
        category == IF is_casual(employee) THEN day \o "Casual" ELSE day
        clause_ref == IF ~is_casual(employee) THEN "23.1"
                      ELSE IF day = "Saturday" THEN "23.2(a)" ELSE "23.2(b)"
        effective_rate == DecMul(base_rate, multiplier)
        amount == DecMul(segment.hours, effective_rate)
    IN  [pay_line |-> PayLine(DateOf(segment.start_time), "", category, segment.hours,
                              effective_rate, amount, clause_ref),
         audit_step |-> AuditStep(step_number,
             IF day = "Saturday" THEN "saturday_penalty" ELSE "sunday_penalty", clause_ref,
             [hours |-> segment.hours, base_rate |-> base_rate,
              employment_type |-> employee.employment_type, day_type |-> day],
             [multiplier |-> multiplier, effective_rate |-> effective_rate,
              amount |-> amount, category |-> category])]

calculate_saturday_pay(segment, employee, base_rate, config, step_number) ==
    WeekendPay("Saturday", segment, employee, base_rate, config, step_number)

calculate_sunday_pay(segment, employee, base_rate, config, step_number) ==
    WeekendPay("Sunday", segment, employee, base_rate, config, step_number)

\* WEEKDAY_OT_TIER_1_THRESHOLD: 2 hours
WEEKDAY_OT_TIER_1_THRESHOLD == 2000

\* one tier of calculate_weekday_overtime
OvertimeTier(rule_id, category, hours, base_rate, multiplier, employee, date, shift_id, step_number) ==
    LET rate == DecMul(base_rate, multiplier)
        amount == DecMul(hours, rate)
    IN  [pay_line |-> PayLine(date, shift_id, category, hours, rate, amount,
                              "25.1(a)(i)(A)"),
         audit_step |-> AuditStep(step_number, rule_id, "25.1(a)(i)(A)",
             [hours |-> hours, base_rate |-> base_rate,
              employment_type |-> employee.employment_type],
             [multiplier |-> multiplier, rate |-> rate, amount |-> amount])]

\* calculate_weekday_overtime with every overtime hour priced at tier 1
calculate_weekday_overtime_one_tier(overtime_hours, base_rate, employee, config, date, shift_id, step_number_start) ==
    IF overtime_hours <= 0 THEN [pay_lines |-> << >>, audit_steps |-> << >>]
    ELSE LET tier1 == OvertimeTier("overtime_tier_1", "Overtime150", overtime_hours,
                 base_rate,
                 config.penalties.overtime.weekday.first_two_hours[employee.employment_type],
                 employee, date, shift_id, step_number_start)
         IN  [pay_lines |-> << tier1.pay_line >>, audit_steps |-> << tier1.audit_step >>]

\* calculate_weekday_overtime
calculate_weekday_overtime(overtime_hours, base_rate, employee, config, date, shift_id, step_number_start) ==
    IF overtime_hours <= 0 THEN [pay_lines |-> << >>, audit_steps |-> << >>]
    ELSE LET overtime_config == config.penalties.overtime.weekday
             tier1_multiplier == overtime_config.first_two_hours[employee.employment_type]
             tier2_multiplier == overtime_config.after_two_hours[employee.employment_type]
             tier1_hours == IF overtime_hours <= WEEKDAY_OT_TIER_1_THRESHOLD
                            THEN overtime_hours ELSE WEEKDAY_OT_TIER_1_THRESHOLD
             tier2_hours == IF overtime_hours > WEEKDAY_OT_TIER_1_THRESHOLD
                            THEN overtime_hours - WEEKDAY_OT_TIER_1_THRESHOLD ELSE 0
             tier1 == OvertimeTier("overtime_tier_1", "Overtime150", tier1_hours, base_rate,
                                   tier1_multiplier, employee, date, shift_id,
                                   step_number_start)
             step_number == IF tier1_hours > 0 THEN step_number_start + 1
                            ELSE step_number_start
             tier2 == OvertimeTier("overtime_tier_2", "Overtime200", tier2_hours, base_rate,
                                   tier2_multiplier, employee, date, shift_id, step_number)
         IN  [pay_lines |->
                 (IF tier1_hours > 0 THEN << tier1.pay_line >> ELSE << >>)
                 \o (IF tier2_hours > 0 THEN << tier2.pay_line >> ELSE << >>),
              audit_steps |->
                 (IF tier1_hours > 0 THEN << tier1.audit_step >> ELSE << >>)
                 \o (IF tier2_hours > 0 THEN << tier2.audit_step >> ELSE << >>)]

\* calculate_weekend_overtime split into the two tiers of a weekday
calculate_weekend_overtime_tiered(overtime_hours, base_rate, employee, config, day_type, date, shift_id, step_number) ==
    IF overtime_hours <= 0 \/ day_type = "Weekday"
    THEN [pay_line |-> << >>, audit_step |-> << >>]
    ELSE LET tiers == calculate_weekday_overtime(overtime_hours, base_rate, employee,
                                                 config, date, shift_id, step_number)
         IN  [pay_line |-> tiers.pay_lines, audit_step |-> tiers.audit_steps]

\* calculate_weekend_overtime: a flat multiplier, no line for a weekday
calculate_weekend_overtime(overtime_hours, base_rate, employee, config, day_type, date, shift_id, step_number) ==
    IF overtime_hours <= 0 \/ day_type = "Weekday"
    THEN [pay_line |-> << >>, audit_step |-> << >>]
    ELSE LET weekend_overtime == config.penalties.overtime.weekend
             multiplier == IF day_type = "Saturday"
                           THEN weekend_overtime.saturday[employee.employment_type]
                           ELSE weekend_overtime.sunday[employee.employment_type]
             rate == DecMul(base_rate, multiplier)
             amount == DecMul(overtime_hours, rate)
         IN  [pay_line |-> << PayLine(date, shift_id, "Overtime200", overtime_hours, rate,
                                      amount, weekend_overtime.clause) >>,
              audit_step |-> << AuditStep(step_number, "weekend_overtime",
                  weekend_overtime.clause,
                  [hours |-> overtime_hours, base_rate |-> base_rate,
                   employment_type |-> employee.employment_type, day_type |-> day_type],
                  [multiplier |-> multiplier, rate |-> rate, amount |-> amount]) >>]

LAUNDRY_ALLOWANCE_TAG == "laundry_allowance"

LAUNDRY_ALLOWANCE_CLAUSE == "15.2(b)"

\* calculate_laundry_allowance with the weekly cap left out
calculate_laundry_allowance_uncapped(employee, num_shifts, per_shift_rate, weekly_cap, step_number) ==
    LET units == DecNew(num_shifts)
        amount == DecMul(units, per_shift_rate)
        eligible == LAUNDRY_ALLOWANCE_TAG \in employee.tags
    IN  [allowance |-> IF eligible
                       THEN << [allowance_type |-> "laundry", units |-> units,
                                rate |-> per_shift_rate, amount |-> amount,
                                clause_ref |-> LAUNDRY_ALLOWANCE_CLAUSE] >>
                       ELSE << >>,
         audit_step |-> AuditStep(step_number, "laundry_allowance", LAUNDRY_ALLOWANCE_CLAUSE,
             [employee_id |-> employee.id, has_laundry_tag |-> eligible,
              num_shifts |-> num_shifts],
             [eligible |-> eligible, amount |-> IF eligible THEN amount ELSE 0])]

\* calculate_laundry_allowance with the tag check left out
calculate_laundry_allowance_untagged(employee, num_shifts, per_shift_rate, weekly_cap, step_number) ==
    LET units == DecNew(num_shifts)
        uncapped_amount == DecMul(units, per_shift_rate)
        cap_applied == uncapped_amount > weekly_cap
        amount == IF cap_applied THEN weekly_cap ELSE uncapped_amount
    IN  [allowance |-> << [allowance_type |-> "laundry", units |-> units,
                           rate |-> per_shift_rate, amount |-> amount,
                           clause_ref |-> LAUNDRY_ALLOWANCE_CLAUSE] >>,
         audit_step |-> AuditStep(step_number, "laundry_allowance", LAUNDRY_ALLOWANCE_CLAUSE,
             [employee_id |-> employee.id, has_laundry_tag |-> TRUE,
              num_shifts |-> num_shifts, per_shift_rate |-> per_shift_rate,
              weekly_cap |-> weekly_cap],
             [eligible |-> TRUE, units |-> units, uncapped_amount |-> uncapped_amount,
              amount |-> amount, cap_applied |-> cap_applied])]

\* calculate_laundry_allowance
calculate_laundry_allowance(employee, num_shifts, per_shift_rate, weekly_cap, step_number) ==
    IF LAUNDRY_ALLOWANCE_TAG \notin employee.tags
    THEN [allowance |-> << >>,
          audit_step |-> AuditStep(step_number, "laundry_allowance", LAUNDRY_ALLOWANCE_CLAUSE,
              [employee_id |-> employee.id, has_laundry_tag |-> FALSE,
               num_shifts |-> num_shifts],
              [eligible |-> FALSE, amount |-> 0])]
    ELSE LET units == DecNew(num_shifts)
             uncapped_amount == DecMul(units, per_shift_rate)
             cap_applied == uncapped_amount > weekly_cap
             amount == IF cap_applied THEN weekly_cap ELSE uncapped_amount
         IN  [allowance |-> << [allowance_type |-> "laundry", units |-> units,
                                rate |-> per_shift_rate, amount |-> amount,
                                clause_ref |-> LAUNDRY_ALLOWANCE_CLAUSE] >>,
              audit_step |-> AuditStep(step_number, "laundry_allowance",
                  LAUNDRY_ALLOWANCE_CLAUSE,
                  [employee_id |-> employee.id, has_laundry_tag |-> TRUE,
                   num_shifts |-> num_shifts, per_shift_rate |-> per_shift_rate,
                   weekly_cap |-> weekly_cap],
                  [eligible |-> TRUE, units |-> units, uncapped_amount |-> uncapped_amount,
                   amount |-> amount, cap_applied |-> cap_applied])]

-----------------------------------------------------------------------------
(* Requests *)

EmploymentTypes == {"FullTime", "PartTime", "Casual"}

\* classification codes a request may carry; "unlisted" is not in the rule table
ClassificationCodes == {"dce_level_3", "dce_level_1", "unlisted"}

\* an employee's base_hourly_rate: no override, or an override of $24.48
OverrideRates == {NoRate, 24480}

Employees ==
    [id : {"emp_001"},
     employment_type : EmploymentTypes,
     classification_code : ClassificationCodes,
     base_hourly_rate : OverrideRates,
     tags : {{}, {LAUNDRY_ALLOWANCE_TAG}}]

PayPeriods == {[start_date |-> d, end_date |-> d + 13] : d \in {1, 3}}

Shift(date, start, end, breaks) ==
    [id |-> 0, date |-> date, start_time |-> start, end_time |-> end, breaks |-> breaks]

Break(start, end, is_paid) == [start_time |-> start, end_time |-> end, is_paid |-> is_paid]

\* the shifts a request is built from (day 0 is a Monday, so 1 = Tuesday,
\* 3 = Thursday, 4 = Friday, 5 = Saturday, 6 = Sunday)
ShiftPool ==
    << \* Thursday 09:00-17:00 with a paid break
       Shift(3, At(3, 9, 0, 0), At(3, 17, 0, 0),
             << Break(At(3, 12, 0, 0), At(3, 12, 15, 0), TRUE) >>),
       \* Thursday 08:00-20:00 with an unpaid half-hour break
       Shift(3, At(3, 8, 0, 0), At(3, 20, 0, 0),
             << Break(At(3, 12, 0, 0), At(3, 12, 30, 0), FALSE) >>),
       \* Friday 22:00 to Saturday 06:00
       Shift(4, At(4, 22, 0, 0), At(5, 6, 0, 0), << >>),
       \* Saturday 00:00-11:00
       Shift(5, At(5, 0, 0, 0), At(5, 11, 0, 0), << >>),
       \* Sunday 23:40 to Monday 00:20
       Shift(6, At(6, 23, 40, 0), At(7, 0, 20, 0), << >>),
       \* Tuesday 09:00-10:00, before the first rate entry takes effect
       Shift(1, At(1, 9, 0, 0), At(1, 10, 0, 0), << >>),
       \* a zero-duration shift
       Shift(3, At(3, 9, 0, 0), At(3, 9, 0, 0), << >>),
       \* a shift that ends before it starts
       Shift(3, At(3, 17, 0, 0), At(3, 9, 0, 0), << >>),
       \* Sunday 16:00 to Monday 04:30
       Shift(6, At(6, 16, 0, 0), At(7, 4, 30, 0), << >>),
       \* Friday 22:00 to Sunday 02:00, across two midnights
       Shift(4, At(4, 22, 0, 0), At(6, 2, 0, 0), << >>),
       \* Thursday 23:59:30 to Friday 00:30:30
       Shift(3, At(3, 23, 59, 30), At(4, 0, 30, 30), << >>),
       \* Thursday 09:00-10:00 with an unpaid break of two hours
       Shift(3, At(3, 9, 0, 0), At(3, 10, 0, 0),
             << Break(At(3, 9, 0, 0), At(3, 11, 0, 0), FALSE) >>),
       \* Thursday 16:00 to midnight
       Shift(3, At(3, 16, 0, 0), At(4, 0, 0, 0), << >>) >>

\* the shift lists of at most MaxShifts shifts; a shift's id is its position
ShiftLists ==
    UNION {{[i \in 1..n |-> [ShiftPool[pick[i]] EXCEPT !.id = i]] :
                pick \in [1..n -> 1..Len(ShiftPool)]} : n \in 0..MaxShifts}

-----------------------------------------------------------------------------
(* State *)

VARIABLES
    employee, pay_period, shifts,   \* the request, converted to domain types
    pc,                             \* position in calculate_handler / perform_calculation
    effective_date, base_rate,      \* locals of perform_calculation
    step_number, all_pay_lines, all_audit_steps,
    shift_idx,                      \* the shift the outer loop is at
    segments, seg_idx,              \* its segments and the inner loop's position
    total_worked_hours, overtime_detection, ordinary_hours_remaining,
    response,                       \* what the handler answers
    probe,                          \* an earlier call (of a rule function, or of the
                                    \* handler with the same request) and its result
    config,                         \* the rule table in AppState, shared by all calls
    other                           \* a second call of the handler, while it is not
                                    \* the one taking a step

vars == << employee, pay_period, shifts, pc, effective_date, base_rate, step_number,
           all_pay_lines, all_audit_steps, shift_idx, segments, seg_idx,
           total_worked_hours, overtime_detection, ordinary_hours_remaining,
           response, probe, config, other >>

\* what a step of a calculation has no way to write: the rule table, which it
\* holds by shared reference, and the locals of another call
shared_vars == << config, other >>

request_vars == << employee, pay_period, shifts >>

shift_vars == << shift_idx, segments, seg_idx, total_worked_hours, overtime_detection,
                 ordinary_hours_remaining >>

NoDetection == [ordinary_hours |-> 0, overtime_hours |-> 0]

Pending == [status |-> "pending"]

Failure(kind) == [status |-> "error", error |-> kind]

NoProbe == [op |-> "none"]

\* no second call of the handler
NoCall == [pc |-> "none"]

\* the locals before perform_calculation has run
InitLocals ==
    /\ effective_date = 0
    /\ base_rate = 0
    /\ step_number = 1
    /\ all_pay_lines = << >>
    /\ all_audit_steps = << >>
    /\ shift_idx = 0
    /\ segments = << >>
    /\ seg_idx = 0
    /\ total_worked_hours = 0
    /\ overtime_detection = NoDetection
    /\ ordinary_hours_remaining = 0
    /\ response = Pending

\* a request has been parsed and converted (calculate_handler up to line 97)
Init ==
    /\ employee \in Employees
    /\ pay_period \in PayPeriods
    /\ shifts \in ShiftLists
    /\ pc = "request"
    /\ InitLocals
    /\ probe = NoProbe
    /\ config = award_config
    /\ other = NoCall

-----------------------------------------------------------------------------
(* calculate_handler and perform_calculation *)

\* an Err leaves the function; the locals keep the values they had at that point
Abort(kind) ==
    /\ pc' = "done"
    /\ response' = Failure(kind)

\* the counter moved on by one whatever the number of steps appended
AdvanceStepByOne(n, audit_steps) == n + 1

\* the counter kept in one place for all calls: a call that goes on after
\* another has run counts on from where that one stopped
AdvanceStepShared(n, audit_steps) ==
    IF other = NoCall THEN n + Len(audit_steps) ELSE other.step_number + Len(audit_steps)

\* step_number += steps_count
AdvanceStep(n, audit_steps) == n + Len(audit_steps)

\* calculate_handler: the classification must exist in the rule table
ValidateClassification ==
    /\ pc = "request"
    /\ LET found == get_classification(config, employee.classification_code)
       IN  IF found.ok
           THEN pc' = "base_rate" /\ UNCHANGED response
           ELSE Abort(found.error)
    /\ UNCHANGED << shared_vars, request_vars, effective_date, base_rate, step_number, all_pay_lines,
                    all_audit_steps, shift_vars, probe >>

\* perform_calculation: effective date and the base rate of the calculation
ResolveBaseRate ==
    /\ pc = "base_rate"
    /\ LET date == IF shifts = << >> THEN pay_period.start_date ELSE shifts[1].date
           base_rate_result == get_base_rate(employee, date, config, step_number)
       IN  /\ effective_date' = date
           /\ IF base_rate_result.ok
              THEN /\ base_rate' = base_rate_result.value.rate
                   /\ all_audit_steps' =
                          Append(all_audit_steps, base_rate_result.value.audit_step)
                   /\ step_number' = step_number + 1
                   /\ shift_idx' = IF shifts = << >> THEN 0 ELSE 1
                   /\ pc' = IF shifts = << >> THEN "allowance" ELSE "shift"
                   /\ UNCHANGED response
              ELSE /\ Abort(base_rate_result.error)
                   /\ UNCHANGED << base_rate, all_audit_steps, step_number, shift_idx >>
    /\ UNCHANGED << shared_vars, request_vars, all_pay_lines, segments, seg_idx, total_worked_hours,
                    overtime_detection, ordinary_hours_remaining, probe >>

\* the segment loop entered whether or not there is a segment
SegmentLoopEntryUnchecked(segs) == "segment"

\* for segment in &segments: the body is entered only if there is a segment
SegmentLoopEntry(segs) == IF segs = << >> THEN "overtime" ELSE "segment"

\* perform_calculation, top of the shift loop: segmentation and overtime detection
BeginShift ==
    /\ pc = "shift"
    /\ shift_idx \in 1..Len(shifts)
    /\ LET shift == shifts[shift_idx]
           segs == segment_by_day(shift)
           detection == detect_daily_overtime(worked_hours(shift),
                                              DEFAULT_DAILY_OVERTIME_THRESHOLD, step_number)
       IN  /\ segments' = segs
           /\ total_worked_hours' = worked_hours(shift)
           /\ overtime_detection' = [ordinary_hours |-> detection.ordinary_hours,
                                     overtime_hours |-> detection.overtime_hours]
           /\ all_audit_steps' = Append(all_audit_steps, detection.audit_step)
           /\ step_number' = step_number + 1
           /\ ordinary_hours_remaining' = detection.ordinary_hours
           /\ seg_idx' = IF segs = << >> THEN 0 ELSE 1
           /\ pc' = SegmentLoopEntry(segs)
    /\ UNCHANGED << shared_vars, request_vars, effective_date, base_rate, all_pay_lines, shift_idx,
                    response, probe >>

\* the ordinary hours a segment takes from what remains of the shift's
SegmentOrdinaryHours(remaining, segment) ==
    IF remaining >= segment.hours THEN segment.hours ELSE remaining

RemainingAfter(remaining, segment) ==
    IF remaining >= segment.hours THEN remaining - segment.hours ELSE 0

\* the weekday arm with the amount left as calculate_ordinary_hours computed it
WeekdaySegmentLineStaleAmount(ordinary_result, shift, segment, segment_ordinary_hours) ==
    [ordinary_result.pay_line EXCEPT
        !.shift_id = shift.id,
        !.date = DateOf(segment.start_time),
        !.hours = segment_ordinary_hours]

\* the weekday arm: the ordinary-hours result, its pay line set to the segment
WeekdaySegmentLine(ordinary_result, shift, segment, segment_ordinary_hours) ==
    [ordinary_result.pay_line EXCEPT
        !.shift_id = shift.id,
        !.date = DateOf(segment.start_time),
        !.hours = segment_ordinary_hours,
        !.amount = DecMul(segment_ordinary_hours, ordinary_result.pay_line.rate)]

\* a pay line for every segment, whatever ordinary hours it took
AnyOrdinaryHours(segment_ordinary_hours) == TRUE

\* the guard of each arm of the match on the segment's day type
HasOrdinaryHours(segment_ordinary_hours) == segment_ordinary_hours > 0

\* perform_calculation, one pass of the segment loop
ProcessSegment ==
    /\ pc = "segment"
    /\ seg_idx \in 1..Len(segments)
    /\ LET shift == shifts[shift_idx]
           segment == segments[seg_idx]
           day_type == get_day_type(segment.start_time)
           segment_ordinary_hours == SegmentOrdinaryHours(ordinary_hours_remaining, segment)
           seg == [segment EXCEPT !.hours = segment_ordinary_hours]
           ordinary_result ==
               calculate_ordinary_hours(shift, employee, config, step_number)
           weekend_result ==
               IF day_type = "Saturday"
               THEN calculate_saturday_pay(seg, employee, base_rate, config,
                                           step_number)
               ELSE calculate_sunday_pay(seg, employee, base_rate, config,
                                         step_number)
           last == seg_idx = Len(segments)
       IN  /\ ordinary_hours_remaining' = RemainingAfter(ordinary_hours_remaining, segment)
           /\ IF HasOrdinaryHours(segment_ordinary_hours) /\ day_type = "Weekday"
                 /\ ~ordinary_result.ok
              THEN /\ Abort(ordinary_result.error)
                   /\ UNCHANGED << all_pay_lines, all_audit_steps, step_number, seg_idx >>
              ELSE /\ IF ~HasOrdinaryHours(segment_ordinary_hours)
                      THEN UNCHANGED << all_pay_lines, all_audit_steps, step_number >>
                      ELSE IF day_type = "Weekday"
                      THEN /\ all_pay_lines' =
                                  Append(all_pay_lines,
                                         WeekdaySegmentLine(ordinary_result.value, shift,
                                                            segment, segment_ordinary_hours))
                           /\ all_audit_steps' =
                                  all_audit_steps \o ordinary_result.value.audit_steps
                           /\ step_number' =
                                  AdvanceStep(step_number, ordinary_result.value.audit_steps)
                      ELSE /\ all_pay_lines' =
                                  Append(all_pay_lines,
                                         [weekend_result.pay_line EXCEPT
                                             !.shift_id = shift.id])
                           /\ all_audit_steps' =
                                  Append(all_audit_steps, weekend_result.audit_step)
                           /\ step_number' = step_number + 1
                   /\ seg_idx' = IF last THEN seg_idx ELSE seg_idx + 1
                   /\ pc' = IF last THEN "overtime" ELSE "segment"
                   /\ UNCHANGED response
    /\ UNCHANGED << shared_vars, request_vars, effective_date, base_rate, shift_idx, segments,
                    total_worked_hours, overtime_detection, probe >>

\* the day type of the instant the shift ends
DayTypeOfShiftEnd(shift) == get_day_type(shift.end_time)

\* primary_day_type: the day type of the instant the shift starts
PrimaryDayType(shift) == get_day_type(shift.start_time)

\* perform_calculation, end of the shift loop: the shift's overtime is priced
\* by the day type of the shift's start
PriceOvertime ==
    /\ pc = "overtime"
    /\ shift_idx \in 1..Len(shifts)
    /\ LET shift == shifts[shift_idx]
           primary_day_type == PrimaryDayType(shift)
           weekday_result ==
               calculate_weekday_overtime(overtime_detection.overtime_hours, base_rate,
                                          employee, config, shift.date, shift.id,
                                          step_number)
           weekend_result ==
               calculate_weekend_overtime(overtime_detection.overtime_hours, base_rate,
                                          employee, config, primary_day_type,
                                          shift.date, shift.id, step_number)
           last == shift_idx = Len(shifts)
       IN  /\ IF ~(overtime_detection.overtime_hours > 0)
              THEN UNCHANGED << all_pay_lines, all_audit_steps, step_number >>
              ELSE IF primary_day_type = "Weekday"
              THEN /\ all_pay_lines' = all_pay_lines \o weekday_result.pay_lines
                   /\ all_audit_steps' = all_audit_steps \o weekday_result.audit_steps
                   /\ step_number' = AdvanceStep(step_number, weekday_result.audit_steps)
              ELSE /\ all_pay_lines' = all_pay_lines \o weekend_result.pay_line
                   /\ all_audit_steps' = all_audit_steps \o weekend_result.audit_step
                   /\ step_number' = step_number + Len(weekend_result.audit_step)
           /\ shift_idx' = IF last THEN shift_idx ELSE shift_idx + 1
           /\ pc' = IF last THEN "allowance" ELSE "shift"
    /\ UNCHANGED << shared_vars, request_vars, effective_date, base_rate, segments, seg_idx,
                    total_worked_hours, overtime_detection, ordinary_hours_remaining,
                    response, probe >>

RECURSIVE SumAmounts(_)
SumAmounts(items) ==
    IF items = << >> THEN 0 ELSE Head(items).amount + SumAmounts(Tail(items))

RECURSIVE SumHoursIn(_, _)
SumHoursIn(pay_lines, categories) ==
    IF pay_lines = << >> THEN 0
    ELSE (IF Head(pay_lines).category \in categories THEN Head(pay_lines).hours ELSE 0)
         + SumHoursIn(Tail(pay_lines), categories)

OrdinaryCategories == {"Ordinary", "OrdinaryCasual"}

OvertimeCategories == {"Overtime150", "Overtime200"}

PenaltyCategories == {"Saturday", "SaturdayCasual", "Sunday", "SundayCasual"}

\* PayTotals with the allowances left out of gross_pay
TotalsWithoutAllowances(pay_lines, allowances) ==
    [gross_pay |-> SumAmounts(pay_lines),
     ordinary_hours |-> SumHoursIn(pay_lines, OrdinaryCategories),
     overtime_hours |-> SumHoursIn(pay_lines, OvertimeCategories),
     penalty_hours |-> SumHoursIn(pay_lines, PenaltyCategories),
     allowances_total |-> SumAmounts(allowances)]

\* PayTotals with the casual penalty categories left out of penalty_hours
TotalsWithoutCasualPenalties(pay_lines, allowances) ==
    [gross_pay |-> SumAmounts(pay_lines) + SumAmounts(allowances),
     ordinary_hours |-> SumHoursIn(pay_lines, OrdinaryCategories),
     overtime_hours |-> SumHoursIn(pay_lines, OvertimeCategories),
     penalty_hours |-> SumHoursIn(pay_lines, {"Saturday", "Sunday"}),
     allowances_total |-> SumAmounts(allowances)]

\* PayTotals as perform_calculation sums them
Totals(pay_lines, allowances) ==
    [gross_pay |-> SumAmounts(pay_lines) + SumAmounts(allowances),
     ordinary_hours |-> SumHoursIn(pay_lines, OrdinaryCategories),
     overtime_hours |-> SumHoursIn(pay_lines, OvertimeCategories),
     penalty_hours |-> SumHoursIn(pay_lines, PenaltyCategories),
     allowances_total |-> SumAmounts(allowances)]

\* readings of the clock: start_time.elapsed() differs from run to run
ElapsedMicros == {120, 450}

\* perform_calculation after the shift loop: allowance, totals and the result
Finish ==
    /\ pc = "allowance"
    /\ LET allowance_rates == get_allowance_rates(config, effective_date)
           laundry_result ==
               calculate_laundry_allowance(employee, Len(shifts),
                                           allowance_rates.value.laundry_per_shift,
                                           allowance_rates.value.laundry_per_week,
                                           step_number)
       IN  IF ~allowance_rates.ok
           THEN /\ Abort(allowance_rates.error)
                /\ UNCHANGED all_audit_steps
           ELSE \E duration_us \in ElapsedMicros :
                /\ all_audit_steps' = Append(all_audit_steps, laundry_result.audit_step)
                /\ pc' = "done"
                /\ response' =
                       [status |-> "ok",
                        result |->
                           [employee_id |-> employee.id,
                            pay_period |-> pay_period,
                            pay_lines |-> all_pay_lines,
                            allowances |-> laundry_result.allowance,
                            totals |-> Totals(all_pay_lines, laundry_result.allowance),
                            audit_trace |->
                               [steps |-> Append(all_audit_steps,
                                                 laundry_result.audit_step),
                                warnings |-> << >>,
                                duration_us |-> duration_us]]]
    /\ UNCHANGED << shared_vars, request_vars, effective_date, base_rate, step_number, all_pay_lines,
                    shift_vars, probe >>

Next ==
    \/ ValidateClassification
    \/ ResolveBaseRate
    \/ BeginShift
    \/ ProcessSegment
    \/ PriceOvertime
    \/ Finish

Spec == Init /\ [][Next]_vars

-----------------------------------------------------------------------------
(* The same request calculated a second time *)

\* the handler is called again with the request it has just answered: the
\* first result is kept for comparison, the locals are fresh
Recalculate ==
    /\ pc = "done"
    /\ response.status = "ok"
    /\ probe = NoProbe
    /\ probe' = [op |-> "calculation", result |-> response.result]
    /\ pc' = "request"
    /\ effective_date' = 0
    /\ base_rate' = 0
    /\ step_number' = 1
    /\ all_pay_lines' = << >>
    /\ all_audit_steps' = << >>
    /\ shift_idx' = 0
    /\ segments' = << >>
    /\ seg_idx' = 0
    /\ total_worked_hours' = 0
    /\ overtime_detection' = NoDetection
    /\ ordinary_hours_remaining' = 0
    /\ response' = Pending
    /\ UNCHANGED << shared_vars, request_vars >>

NextTwice == Next \/ Recalculate

SpecTwice == Init /\ [][NextTwice]_vars

-----------------------------------------------------------------------------
(* Two calls of the handler at once, over the one rule table *)

\* the employees of the two calls: a full-time employee with the laundry tag, a
\* casual one with a rate override, and one whose classification has no rate
\* from Friday on
ParallelEmployees ==
    {e \in Employees :
        \/ /\ e.employment_type = "FullTime" /\ e.classification_code = "dce_level_3"
           /\ e.base_hourly_rate = NoRate /\ e.tags = {LAUNDRY_ALLOWANCE_TAG}
        \/ /\ e.employment_type = "Casual" /\ e.classification_code = "dce_level_3"
           /\ e.base_hourly_rate # NoRate /\ e.tags = {}
        \/ /\ e.employment_type = "PartTime" /\ e.classification_code = "dce_level_1"
           /\ e.base_hourly_rate = NoRate /\ e.tags = {}}

\* the shifts of the two calls: Thursday 08:00-20:00 with an unpaid break,
\* Friday 22:00 to Saturday 06:00, and the zero-duration shift
ParallelShiftPool == << ShiftPool[2], ShiftPool[3], ShiftPool[7] >>

ParallelShiftLists ==
    UNION {{[i \in 1..n |-> [ParallelShiftPool[pick[i]] EXCEPT !.id = i]] :
                pick \in [1..n -> 1..Len(ParallelShiftPool)]} : n \in 0..MaxParallelShifts}

\* the running call put aside: its request, its position, its locals and its response
Suspended(call) ==
    [call |-> call, employee |-> employee, pay_period |-> pay_period, shifts |-> shifts,
     pc |-> pc, effective_date |-> effective_date, base_rate |-> base_rate,
     step_number |-> step_number, all_pay_lines |-> all_pay_lines,
     all_audit_steps |-> all_audit_steps, shift_idx |-> shift_idx, segments |-> segments,
     seg_idx |-> seg_idx, total_worked_hours |-> total_worked_hours,
     overtime_detection |-> overtime_detection,
     ordinary_hours_remaining |-> ordinary_hours_remaining, response |-> response]

\* a call that has just received its request
Arrived(call, e, p, s) ==
    [call |-> call, employee |-> e, pay_period |-> p, shifts |-> s,
     pc |-> "request", effective_date |-> 0, base_rate |-> 0,
     step_number |-> 1, all_pay_lines |-> << >>, all_audit_steps |-> << >>,
     shift_idx |-> 0, segments |-> << >>, seg_idx |-> 0, total_worked_hours |-> 0,
     overtime_detection |-> NoDetection, ordinary_hours_remaining |-> 0,
     response |-> Pending]

\* the locals and the request of a call become the running ones
Resume(call) ==
    /\ employee' = call.employee
    /\ pay_period' = call.pay_period
    /\ shifts' = call.shifts
    /\ pc' = call.pc
    /\ effective_date' = call.effective_date
    /\ base_rate' = call.base_rate
    /\ step_number' = call.step_number
    /\ all_pay_lines' = call.all_pay_lines
    /\ all_audit_steps' = call.all_audit_steps
    /\ shift_idx' = call.shift_idx
    /\ segments' = call.segments
    /\ seg_idx' = call.seg_idx
    /\ total_worked_hours' = call.total_worked_hours
    /\ overtime_detection' = call.overtime_detection
    /\ ordinary_hours_remaining' = call.ordinary_hours_remaining
    /\ response' = call.response

\* the request answered alone is sent again (call 1) while a second request
\* arrives (call 2): the answer given alone is kept for comparison
CalculateInParallel ==
    /\ pc = "done"
    /\ probe = NoProbe
    /\ other = NoCall
    /\ probe' = [op |-> "alone", response |-> response]
    /\ Resume(Arrived(1, employee, pay_period, shifts))
    /\ \E e \in ParallelEmployees, s \in ParallelShiftLists :
          other' = Arrived(2, e, pay_period, s)
    /\ UNCHANGED config

\* the scheduler turns to the other call
Switch ==
    /\ other # NoCall
    /\ other' = Suspended(3 - other.call)
    /\ Resume(other)
    /\ UNCHANGED << probe, config >>

InitParallel ==
    /\ employee \in ParallelEmployees
    /\ pay_period = CHOOSE p \in PayPeriods : p.start_date = 3
    /\ shifts \in ParallelShiftLists
    /\ pc = "request"
    /\ InitLocals
    /\ probe = NoProbe
    /\ config = award_config
    /\ other = NoCall

NextParallel == Next \/ CalculateInParallel \/ Switch

SpecParallel == InitParallel /\ [][NextParallel]_vars

-----------------------------------------------------------------------------
(* Calculations over a rule table with another daily overtime threshold *)

\* the rule tables a ConfigLoader may hold: the one above, and the same with a
\* daily overtime threshold of 10 hours
RuleTables ==
    {award_config,
     [award_config EXCEPT !.penalties.overtime.daily_threshold_hours = 10]}

InitTables ==
    /\ employee \in {e \in Employees : e.classification_code = "dce_level_3" /\ e.tags = {}}
    /\ pay_period = CHOOSE p \in PayPeriods : p.start_date = 3
    /\ shifts \in ShiftLists
    /\ pc = "request"
    /\ InitLocals
    /\ probe = NoProbe
    /\ config \in RuleTables
    /\ other = NoCall

SpecTables == InitTables /\ [][Next]_vars

-----------------------------------------------------------------------------
(* Direct calls of detect_daily_overtime, over any worked hours and threshold *)

\* worked hours of a probe, in half-hour steps from -2h
ProbeWorkedHours == {h * (DecUnit \div 2) : h \in (-4)..MaxProbeHalfHours}

\* thresholds of a probe: 0h, 4h, 7.6h, 8h, 10h
ProbeThresholds == {0, 4000, 7600, 8000, 10000}

InitProbe ==
    /\ employee = CHOOSE e \in Employees : TRUE
    /\ pay_period = CHOOSE p \in PayPeriods : TRUE
    /\ shifts = << >>
    /\ pc = "probe"
    /\ InitLocals
    /\ probe = NoProbe
    /\ config = award_config
    /\ other = NoCall

ProbeDetect ==
    /\ pc = "probe"
    /\ \E w \in ProbeWorkedHours, t \in ProbeThresholds :
          probe' = [op |-> "detect_daily_overtime", worked_hours |-> w, threshold |-> t,
                    detection |-> detect_daily_overtime(w, t, 1)]
    /\ UNCHANGED << shared_vars, request_vars, pc, effective_date, base_rate, step_number,
                    all_pay_lines, all_audit_steps, shift_vars, response >>

\* the employees and base rates of a direct call of a pricing function
ProbeEmployees ==
    {e \in Employees : e.classification_code = "dce_level_3" /\ e.tags = {}}

ProbeBaseRates == {16 * DecUnit, 24480}

\* a direct call of calculate_weekday_overtime
ProbeWeekdayOvertime ==
    /\ pc = "probe"
    /\ \E h \in ProbeWorkedHours, e \in ProbeEmployees, r \in ProbeBaseRates :
          probe' = [op |-> "calculate_weekday_overtime", overtime_hours |-> h,
                    base_rate |-> r, employee |-> e,
                    result |-> calculate_weekday_overtime(h, r, e, config, 3, 1, 1)]
    /\ UNCHANGED << shared_vars, request_vars, pc, effective_date, base_rate, step_number,
                    all_pay_lines, all_audit_steps, shift_vars, response >>

\* a direct call of get_base_rate, for any employee and date
ProbeBaseRate ==
    /\ pc = "probe"
    /\ \E e \in Employees, d \in 0..MaxProbeDate :
          probe' = [op |-> "get_base_rate", employee |-> e, effective_date |-> d,
                    result |-> get_base_rate(e, d, config, 1)]
    /\ UNCHANGED << shared_vars, request_vars, pc, effective_date, base_rate, step_number,
                    all_pay_lines, all_audit_steps, shift_vars, response >>

\* the rates of a direct call of apply_casual_loading: $0, $0.008, $16, $20,
\* $24.48, $28.56 and $1600, money values whose product with 1.25 the decimal holds
ProbeRates == {0, 8, 16 * DecUnit, 20 * DecUnit, 24480, 28560, 1600 * DecUnit}

\* a direct call of apply_casual_loading, for any employee
ProbeCasualLoading ==
    /\ pc = "probe"
    /\ \E r \in ProbeRates, e \in Employees :
          probe' = [op |-> "apply_casual_loading", base_rate |-> r, employee |-> e,
                    result |-> apply_casual_loading(r, e, 1)]
    /\ UNCHANGED << shared_vars, request_vars, pc, effective_date, base_rate, step_number,
                    all_pay_lines, all_audit_steps, shift_vars, response >>

\* the start and end instants of a direct call of segment_by_day: midnight, half
\* a minute after it, noon and half a minute before midnight of each day from
\* the first Friday on
ProbeInstants ==
    UNION {{At(d, 0, 0, 0), At(d, 0, 0, 30), At(d, 12, 0, 0), At(d, 23, 59, 30)} :
               d \in 4..MaxProbeDate}

\* a direct call of segment_by_day, for a shift of any start and end
ProbeSegmentByDay ==
    /\ pc = "probe"
    /\ \E start \in ProbeInstants, end \in ProbeInstants :
          probe' = [op |-> "segment_by_day", start_time |-> start, end_time |-> end,
                    segments |-> segment_by_day(Shift(DateOf(start), start, end, << >>))]
    /\ UNCHANGED << shared_vars, request_vars, pc, effective_date, base_rate, step_number,
                    all_pay_lines, all_audit_steps, shift_vars, response >>

NextProbe ==
    \/ ProbeSegmentByDay
    \/ ProbeDetect
    \/ ProbeWeekdayOvertime
    \/ ProbeBaseRate
    \/ ProbeCasualLoading

SpecProbe == InitProbe /\ [][NextProbe]_vars

-----------------------------------------------------------------------------
(* Properties *)

Returned == response.status = "ok"

Failed == response.status = "error"

ResultSteps == response.result.audit_trace.steps

ResultLines == response.result.pay_lines

HasStep(steps, rule_id) == \E i \in 1..Len(steps) : steps[i].rule_id = rule_id

RECURSIVE SumSegmentHours(_)
SumSegmentHours(segs) ==
    IF segs = << >> THEN 0 ELSE Head(segs).hours + SumSegmentHours(Tail(segs))

\* C1: in every result the audit steps are numbered 1, 2, 3, ... in the order
\* of the trace, with no gap, repeat or out-of-order entry.
C1_StepNumbersSequential ==
    Returned => \A i \in 1..Len(ResultSteps) : ResultSteps[i].step_number = i

\* a result over a weekday shift with both overtime tiers and a weekend shift
\* with overtime: calculators that append three, two and one step have run
C1_Witness ==
    /\ Returned
    /\ HasStep(ResultSteps, "ordinary_hours_calculation")
    /\ HasStep(ResultSteps, "overtime_tier_2")
    /\ HasStep(ResultSteps, "saturday_penalty")
    /\ HasStep(ResultSteps, "weekend_overtime")

\* C2: once a shift is segmented, the hours of its segments sum to the
\* shift's worked hours (span minus unpaid breaks).
C2_SegmentHoursEqualWorkedHours ==
    pc \in {"segment", "overtime"} => SumSegmentHours(segments) = total_worked_hours

\* C3: detect_daily_overtime splits any worked hours at any threshold into
\* ordinary and overtime hours that sum to the worked hours, the ordinary
\* hours not above the threshold.
C3_DetectionSplitsWorkedHours ==
    probe.op = "detect_daily_overtime" =>
        /\ probe.detection.ordinary_hours + probe.detection.overtime_hours
               = probe.worked_hours
        /\ probe.detection.ordinary_hours <= probe.threshold

\* a call with worked hours above a positive threshold: the capped case
C3_Witness ==
    /\ probe.op = "detect_daily_overtime"
    /\ probe.threshold > 0
    /\ probe.worked_hours > probe.threshold
    /\ probe.detection.overtime_hours > 0

\* C4: the ordinary and overtime hours detected for a shift of a calculation
\* are both non-negative.
C4_DetectedHoursNonNegative ==
    /\ overtime_detection.ordinary_hours >= 0
    /\ overtime_detection.overtime_hours >= 0

\* C5: the audit trace of a result has exactly one base_rate_lookup step.
C5_OneBaseRateLookup ==
    Returned =>
        Cardinality({i \in 1..Len(ResultSteps) :
                        ResultSteps[i].rule_id = "base_rate_lookup"}) = 1

\* the multipliers the rule table gives a pay category for an employment type
CategoryMultipliers(category, employment_type) ==
    LET p == award_config.penalties
    IN  CASE category = "Ordinary" -> {DecUnit}
          [] category = "OrdinaryCasual" -> {casual_loading_multiplier}
          [] category \in {"Saturday", "SaturdayCasual"} ->
                 {p.penalties.saturday[employment_type]}
          [] category \in {"Sunday", "SundayCasual"} ->
                 {p.penalties.sunday[employment_type]}
          [] category = "Overtime150" ->
                 {p.overtime.weekday.first_two_hours[employment_type]}
          [] category = "Overtime200" ->
                 {p.overtime.weekday.after_two_hours[employment_type],
                  p.overtime.weekend.saturday[employment_type],
                  p.overtime.weekend.sunday[employment_type]}

\* C6: every pay line of a result is priced from the one base rate resolved
\* for the calculation's effective date: its rate is that base rate times the
\* multiplier of its category and the employment type.
C6_OneBaseRatePricesAllLines ==
    Returned =>
        \A k \in 1..Len(ResultLines) :
            \E m \in CategoryMultipliers(ResultLines[k].category, employee.employment_type) :
                ResultLines[k].rate = DecMul(base_rate, m)

\* C7: a ClassificationNotFound or RateNotFound is never raised after a pay
\* line has been produced.
C7_RateErrorBeforeAnyPayLine ==
    (Failed /\ response.error \in {"ClassificationNotFound", "RateNotFound"})
        => all_pay_lines = << >>

\* the error kinds a calculation may return
CalculationErrorKinds ==
    {"ClassificationNotFound", "RateNotFound", "InvalidShift", "InvalidEmployee",
     "CalculationError"}

\* C8: a calculation returns a result or one of the five calculation error kinds.
C8_OnlyCalculationErrorKinds ==
    Failed => response.error \in CalculationErrorKinds

\* C9: a request for an employee who carries a rate override is never
\* rejected with ClassificationNotFound.
C9_OverrideNeverClassificationNotFound ==
    employee.base_hourly_rate # NoRate
        => ~(Failed /\ response.error = "ClassificationNotFound")

PayLineRules ==
    {"ordinary_hours_calculation", "saturday_penalty", "sunday_penalty",
     "overtime_tier_1", "overtime_tier_2", "weekend_overtime"}

IsPayLineStep(step) == step.rule_id \in PayLineRules

\* the audit steps that record the computation of a pay line, in trace order
PayLineSteps(steps) == SelectSeq(steps, IsPayLineStep)

\* C10: the k-th audit step that records a pay line holds the hours and the
\* amount of the k-th pay line of the result.
C10_PayLineStepsSnapshotPayLines ==
    Returned =>
        /\ Len(PayLineSteps(ResultSteps)) = Len(ResultLines)
        /\ \A k \in 1..Len(ResultLines) :
              /\ PayLineSteps(ResultSteps)[k].input.hours = ResultLines[k].hours
              /\ PayLineSteps(ResultSteps)[k].output.amount = ResultLines[k].amount

\* C11: a second calculation of the same request over the same rule table
\* returns the pay lines, the totals and the audit trace of the first.
C11_RepeatedCalculationIdentical ==
    (probe.op = "calculation" /\ Returned) =>
        /\ response.result.pay_lines = probe.result.pay_lines
        /\ response.result.totals = probe.result.totals
        /\ response.result.audit_trace = probe.result.audit_trace

\* C12: every pay line of a result has amount = hours x rate as an exact
\* product: nothing of the product is rounded away.
C12_AmountIsExactProduct ==
    Returned =>
        \A k \in 1..Len(ResultLines) :
            ResultLines[k].amount * DecUnit = ResultLines[k].hours * ResultLines[k].rate

\* C12 as amended: every pay line of a result has amount = hours * rate, the
\* product of the line's own hours and rate in the decimal arithmetic of the
\* engine (rounded at the last digit the decimal holds, and only there).
C12_AmountIsDecimalProduct ==
    Returned =>
        \A k \in 1..Len(ResultLines) :
            ResultLines[k].amount = DecMul(ResultLines[k].hours, ResultLines[k].rate)

\* a result with a weekday line the orchestrator cut down to the ordinary
\* hours of its segment, and a line whose product does not fit the decimal
C12_Witness ==
    /\ Returned
    /\ \E k \in 1..Len(ResultLines) :
          /\ ResultLines[k].category \in OrdinaryCategories
          /\ ResultLines[k].hours # worked_hours(shifts[ResultLines[k].shift_id])
    /\ \E k \in 1..Len(ResultLines) :
          (ResultLines[k].hours * ResultLines[k].rate) % DecUnit # 0

\* the sum of field f over the first n items of a sequence of records
RECURSIVE FieldSum(_, _, _)
FieldSum(items, f, n) ==
    IF n = 0 THEN 0 ELSE FieldSum(items, f, n - 1) + items[n][f]

\* the pay lines whose category is one of the given ones
LinesIn(pay_lines, categories) ==
    SelectSeq(pay_lines, LAMBDA pl : pl.category \in categories)

\* C13: in every result gross_pay is the sum of the amounts of all pay lines
\* plus the sum of the amounts of all allowances.
C13_GrossPayIsSumOfAmounts ==
    Returned =>
        response.result.totals.gross_pay =
            FieldSum(ResultLines, "amount", Len(ResultLines))
            + FieldSum(response.result.allowances, "amount",
                       Len(response.result.allowances))

\* a result with pay lines and a laundry allowance that is paid
C13_Witness ==
    /\ Returned
    /\ Len(ResultLines) >= 2
    /\ Len(response.result.allowances) = 1
    /\ response.result.allowances[1].amount > 0

\* C14: in every result the hour totals are the hours of the pay lines by
\* category group (ordinary, overtime, penalty), and together they are the
\* hours of all pay lines.
C14_HourTotalsGroupByCategory ==
    Returned =>
        LET totals == response.result.totals
            ordinary == LinesIn(ResultLines, {"Ordinary", "OrdinaryCasual"})
            overtime == LinesIn(ResultLines, {"Overtime150", "Overtime200"})
            penalty == LinesIn(ResultLines, {"Saturday", "SaturdayCasual",
                                             "Sunday", "SundayCasual"})
        IN  /\ totals.ordinary_hours = FieldSum(ordinary, "hours", Len(ordinary))
            /\ totals.overtime_hours = FieldSum(overtime, "hours", Len(overtime))
            /\ totals.penalty_hours = FieldSum(penalty, "hours", Len(penalty))
            /\ totals.ordinary_hours + totals.overtime_hours + totals.penalty_hours
                   = FieldSum(ResultLines, "hours", Len(ResultLines))

\* a result with ordinary, penalty and both tiers of overtime hours
C14_Witness ==
    /\ Returned
    /\ response.result.totals.ordinary_hours > 0
    /\ response.result.totals.penalty_hours > 0
    /\ \E k \in 1..Len(ResultLines) : ResultLines[k].category = "Overtime150"
    /\ \E k \in 1..Len(ResultLines) : ResultLines[k].category = "Overtime200"

\* the penalty row of the rule table for the day a weekend category names
PenaltyRow(category) ==
    IF category \in {"Saturday", "SaturdayCasual"}
    THEN award_config.penalties.penalties.saturday
    ELSE award_config.penalties.penalties.sunday

\* C15: the rate of every Saturday or Sunday ordinary pay line is the base
\* rate times the table multiplier of the day and the employment type, with
\* no casual loading on top: base_rate x 1.75 for a casual on a Saturday.
C15_WeekendPenaltyNotCumulative ==
    Returned =>
        \A k \in 1..Len(ResultLines) :
            ResultLines[k].category \in
                {"Saturday", "SaturdayCasual", "Sunday", "SundayCasual"} =>
                /\ ResultLines[k].rate * DecUnit =
                       base_rate * PenaltyRow(ResultLines[k].category)[employee.employment_type]
                /\ ResultLines[k].category = "SaturdayCasual" =>
                       ResultLines[k].rate * 100 = base_rate * 175

\* a result for a casual employee with a Saturday and a Sunday line
C15_Witness ==
    /\ Returned
    /\ employee.employment_type = "Casual"
    /\ \E k \in 1..Len(ResultLines) : ResultLines[k].category = "SaturdayCasual"
    /\ \E k \in 1..Len(ResultLines) : ResultLines[k].category = "SundayCasual"

Min(a, b) == IF a <= b THEN a ELSE b

Max(a, b) == IF a >= b THEN a ELSE b

\* C16: calculate_weekday_overtime prices min(overtime_hours, 2) hours in an
\* Overtime150 line and max(0, overtime_hours - 2) hours in an Overtime200
\* line: the lines' hours sum to overtime_hours, there is no tier-2 line up
\* to 2 hours and no line at all up to 0 hours.
C16_WeekdayOvertimeTiers ==
    probe.op = "calculate_weekday_overtime" =>
        LET lines == probe.result.pay_lines
            tier1 == LinesIn(lines, {"Overtime150"})
            tier2 == LinesIn(lines, {"Overtime200"})
            h == probe.overtime_hours
        IN  /\ Len(tier1) + Len(tier2) = Len(lines)
            /\ IF h <= 0 THEN lines = << >>
               ELSE /\ Len(tier1) = 1
                    /\ tier1[1].hours = Min(h, 2 * DecUnit)
                    /\ FieldSum(lines, "hours", Len(lines)) = h
            /\ IF h <= 2 * DecUnit THEN tier2 = << >>
               ELSE /\ Len(tier2) = 1
                    /\ tier2[1].hours = Max(0, h - 2 * DecUnit)

\* a call with more than two overtime hours, priced in both tiers
C16_Witness ==
    /\ probe.op = "calculate_weekday_overtime"
    /\ probe.overtime_hours > 2 * DecUnit
    /\ Len(probe.result.pay_lines) = 2

\* the overtime pay lines of the shift at position i of the request
OvertimeLinesOf(i) ==
    SelectSeq(ResultLines,
              LAMBDA pl : pl.shift_id = i /\ pl.category \in {"Overtime150", "Overtime200"})

\* the flat weekend overtime multiplier of the rule table
WeekendOvertimeMultiplier(day_type, employment_type) ==
    IF day_type = "Saturday"
    THEN award_config.penalties.overtime.weekend.saturday[employment_type]
    ELSE award_config.penalties.overtime.weekend.sunday[employment_type]

\* C17: for a shift that starts on a Saturday or a Sunday, the overtime hours
\* (the worked hours above 8) are paid in one Overtime200 line at the base
\* rate times the flat weekend multiplier, and there is no other overtime
\* line for the shift; without overtime hours there is none.
C17_WeekendOvertimeFlat ==
    Returned =>
        \A i \in 1..Len(shifts) :
            LET day_type == get_day_type(shifts[i].start_time)
                overtime_hours == worked_hours(shifts[i]) - 8 * DecUnit
                lines == OvertimeLinesOf(i)
            IN  day_type \in {"Saturday", "Sunday"} =>
                    IF overtime_hours <= 0 THEN lines = << >>
                    ELSE /\ Len(lines) = 1
                         /\ lines[1].category = "Overtime200"
                         /\ lines[1].hours = overtime_hours
                         /\ lines[1].rate * DecUnit =
                                base_rate * WeekendOvertimeMultiplier(day_type,
                                                employee.employment_type)

\* a result over a Saturday shift and a Sunday shift, each with more than
\* two overtime hours
C17_Witness ==
    /\ Returned
    /\ \E i, j \in 1..Len(shifts) :
          /\ get_day_type(shifts[i].start_time) = "Saturday"
          /\ get_day_type(shifts[j].start_time) = "Sunday"
          /\ worked_hours(shifts[i]) > 10 * DecUnit
          /\ worked_hours(shifts[j]) > 10 * DecUnit
          /\ Len(OvertimeLinesOf(i)) = 1
          /\ Len(OvertimeLinesOf(j)) = 1

\* the rate file with the latest effective date on or before a date, among
\* the rate files as loaded (in no particular order)
LatestRateFile(date) ==
    CHOOSE e \in {rate_files[i] : i \in 1..Len(rate_files)} :
        /\ e.effective_date <= date
        /\ \A i \in 1..Len(rate_files) :
              rate_files[i].effective_date <= date =>
                  rate_files[i].effective_date <= e.effective_date

\* C18: for an employee with the laundry allowance tag a result has exactly
\* one allowance payment, of min(number of shifts x per-shift rate, weekly
\* cap), over all the shifts of the request.
C18_LaundryAllowanceOnceCapped ==
    (Returned /\ LAUNDRY_ALLOWANCE_TAG \in employee.tags) =>
        LET allowances == response.result.allowances
            rates == LatestRateFile(effective_date).allowances
        IN  /\ Len(allowances) = 1
            /\ allowances[1].amount =
                   Min(Len(shifts) * rates.laundry_per_shift, rates.laundry_per_week)

\* a result for a tagged employee whose shifts take the allowance to the cap
C18_Witness ==
    /\ Returned
    /\ LAUNDRY_ALLOWANCE_TAG \in employee.tags
    /\ Len(shifts) >= 2
    /\ Len(shifts) * LatestRateFile(effective_date).allowances.laundry_per_shift
           > LatestRateFile(effective_date).allowances.laundry_per_week
    /\ response.result.allowances[1].amount =
           LatestRateFile(effective_date).allowances.laundry_per_week

\* C19: for an employee without the laundry allowance tag a result has no
\* allowance payment, and its audit trace has a step that records the
\* ineligibility.
C19_IneligibleStillAudited ==
    (Returned /\ LAUNDRY_ALLOWANCE_TAG \notin employee.tags) =>
        /\ response.result.allowances = << >>
        /\ \E i \in 1..Len(ResultSteps) :
              /\ ResultSteps[i].rule_id = "laundry_allowance"
              /\ ResultSteps[i].output.eligible = FALSE

\* a result with pay lines for an employee without the tag
C19_Witness ==
    /\ Returned
    /\ LAUNDRY_ALLOWANCE_TAG \notin employee.tags
    /\ Len(shifts) >= 1
    /\ ResultLines # << >>
    /\ ResultSteps[Len(ResultSteps)].rule_id = "laundry_allowance"

\* C20: without an override and with a known classification, get_base_rate
\* returns the hourly rate the rate file with the latest effective date on
\* or before the requested date gives the classification, and RateNotFound
\* when there is no such file or it has no rate for the classification.
C20_BaseRateFromLatestEffectiveEntry ==
    (/\ probe.op = "get_base_rate"
     /\ probe.employee.base_hourly_rate = NoRate
     /\ probe.employee.classification_code \in Classified) =>
        LET code == probe.employee.classification_code
            date == probe.effective_date
        IN  IF \A i \in 1..Len(rate_files) : rate_files[i].effective_date > date
            THEN ~probe.result.ok /\ probe.result.error = "RateNotFound"
            ELSE IF code \in DOMAIN LatestRateFile(date).rates
            THEN /\ probe.result.ok
                 /\ probe.result.value.rate = LatestRateFile(date).rates[code].hourly
            ELSE ~probe.result.ok /\ probe.result.error = "RateNotFound"

\* a lookup on a date after two rate files took effect, answered from the later
C20_Witness ==
    /\ probe.op = "get_base_rate"
    /\ probe.employee.base_hourly_rate = NoRate
    /\ probe.employee.classification_code \in Classified
    /\ Cardinality({i \in 1..Len(rate_files) :
                        rate_files[i].effective_date <= probe.effective_date}) = 2
    /\ probe.result.ok
    /\ probe.result.value.audit_step.output.rate_effective_date = 4

\* C21: for every rate r, apply_casual_loading returns r x 1.25 for a Casual
\* employee and r unchanged for a FullTime or PartTime employee
C21_CasualLoading ==
    probe.op = "apply_casual_loading" =>
        IF probe.employee.employment_type = "Casual"
        THEN probe.result.loaded_rate * 100 = probe.base_rate * 125
        ELSE probe.result.loaded_rate = probe.base_rate

C21_Witness ==
    /\ probe.op = "apply_casual_loading"
    /\ probe.employee.employment_type = "Casual"
    /\ probe.base_rate = 24480
    /\ probe.result.loaded_rate = 30600

\* the ordinary hours the claim hands to segment j of a shift, and what remains
\* of the shift's ordinary hours before segment j
RECURSIVE Received(_, _, _), RemainingBefore(_, _, _)
Received(ordinary_hours, segs, j) ==
    Min(RemainingBefore(ordinary_hours, segs, j), segs[j].hours)

RemainingBefore(ordinary_hours, segs, j) ==
    IF j = 1 THEN ordinary_hours
    ELSE RemainingBefore(ordinary_hours, segs, j - 1) - Received(ordinary_hours, segs, j - 1)

\* the segments of the current shift the segment loop has been through
SegmentsDone == IF pc = "segment" THEN seg_idx - 1 ELSE Len(segments)

\* the hours of the pay lines the segment loop has emitted for the current shift
SegmentLineHours ==
    LET lines == SelectSeq(all_pay_lines, LAMBDA pl : pl.shift_id = shift_idx)
    IN  [k \in 1..Len(lines) |-> lines[k].hours]

\* the hours the claim hands to the segments gone through, those of no hours left out
RECURSIVE ReceivedHours(_, _, _)
ReceivedHours(ordinary_hours, segs, n) ==
    IF n = 0 THEN << >>
    ELSE ReceivedHours(ordinary_hours, segs, n - 1)
         \o (IF Received(ordinary_hours, segs, n) > 0
             THEN << Received(ordinary_hours, segs, n) >> ELSE << >>)

\* each segment receives min(remaining, segment.hours), in chronological order
C24_EachSegmentReceivesMin ==
    pc \in {"segment", "overtime"} =>
        /\ ordinary_hours_remaining =
               RemainingBefore(overtime_detection.ordinary_hours, segments, SegmentsDone + 1)
        /\ SegmentLineHours =
               ReceivedHours(overtime_detection.ordinary_hours, segments, SegmentsDone)

\* a later segment receives ordinary hours only after every earlier one is filled
C24_EarlierSegmentsFilledFirst ==
    pc \in {"segment", "overtime"} =>
        \A j \in 1..SegmentsDone : \A i \in 1..(j - 1) :
            Received(overtime_detection.ordinary_hours, segments, j) > 0
                => Received(overtime_detection.ordinary_hours, segments, i) = segments[i].hours

\* the ordinary hours handed out in total never exceed the shift's ordinary_hours
C24_HandedOutWithinOrdinaryHours ==
    pc \in {"segment", "overtime"} =>
        LET lines == SelectSeq(all_pay_lines, LAMBDA pl : pl.shift_id = shift_idx)
        IN  FieldSum(lines, "hours", Len(lines)) <= overtime_detection.ordinary_hours

\* C24: within each shift the ordinary hours are handed to the segments in
\* chronological order, each segment receiving min(remaining, segment.hours)
\* where remaining starts at the shift's ordinary_hours and is reduced by what
\* earlier segments received; a later segment receives ordinary hours only
\* after every earlier segment is filled, and the ordinary hours handed out in
\* total never exceed the shift's ordinary_hours
C24_OrdinaryHoursHandedOutInOrder ==
    /\ C24_EachSegmentReceivesMin
    /\ C24_EarlierSegmentsFilledFirst
    /\ C24_HandedOutWithinOrdinaryHours

\* the weekday overtime multiplier of the rule table for a tier
WeekdayOvertimeMultiplier(category, employment_type) ==
    IF category = "Overtime150"
    THEN award_config.penalties.overtime.weekday.first_two_hours[employment_type]
    ELSE award_config.penalties.overtime.weekday.after_two_hours[employment_type]

\* C25: a shift's overtime remainder (its worked hours above 8) is priced once,
\* after the lines of its segments, by the day type of the shift's start:
\* weekday tiered overtime (the first two hours at the first tier, the rest at
\* the second) if the shift starts on Monday to Friday, one flat weekend line
\* if it starts on Saturday or Sunday, whatever the days the overtime hours
\* fall on; a shift without overtime hours has no overtime line
C25_OvertimePricedOnceByShiftStart ==
    Returned =>
        \A i \in 1..Len(shifts) :
            LET day_type == get_day_type(shifts[i].start_time)
                overtime_hours == Max(0, worked_hours(shifts[i]) - 8 * DecUnit)
                lines == OvertimeLinesOf(i)
                multiplier(pl) ==
                    IF day_type = "Weekday"
                    THEN WeekdayOvertimeMultiplier(pl.category, employee.employment_type)
                    ELSE WeekendOvertimeMultiplier(day_type, employee.employment_type)
            IN  /\ FieldSum(lines, "hours", Len(lines)) = overtime_hours
                /\ \A k \in 1..Len(lines) :
                       lines[k].rate * DecUnit = base_rate * multiplier(lines[k])
                /\ IF overtime_hours = 0 THEN lines = << >>
                   ELSE IF day_type = "Weekday"
                   THEN /\ lines[1].category = "Overtime150"
                        /\ lines[1].hours = Min(overtime_hours, 2 * DecUnit)
                        /\ Len(lines) = IF overtime_hours > 2 * DecUnit THEN 2 ELSE 1
                        /\ Len(lines) = 2 => lines[2].category = "Overtime200"
                   ELSE /\ Len(lines) = 1
                        /\ lines[1].category = "Overtime200"
                /\ \A k, m \in 1..Len(ResultLines) :
                       /\ ResultLines[k].shift_id = i
                       /\ ResultLines[m].shift_id = i
                       /\ ResultLines[k].category \in OvertimeCategories
                       /\ ResultLines[m].category \notin OvertimeCategories
                       => m < k

\* a result over a shift that starts on a Friday with all its overtime hours on
\* the weekend, priced in the two weekday tiers, and a shift that starts on a
\* Sunday with all its overtime hours on the Monday, priced in one flat line
C25_Witness ==
    /\ Returned
    /\ \E i, j \in 1..Len(shifts) :
          /\ shifts[i].start_time = At(4, 22, 0, 0) /\ shifts[i].end_time = At(6, 2, 0, 0)
          /\ Len(OvertimeLinesOf(i)) = 2
          /\ OvertimeLinesOf(i)[2].hours = 18 * DecUnit
          /\ shifts[j].start_time = At(6, 16, 0, 0) /\ shifts[j].end_time = At(7, 4, 30, 0)
          /\ Len(OvertimeLinesOf(j)) = 1
          /\ OvertimeLinesOf(j)[1].hours = 4500

\* C26: the segments returned by segment_by_day are in chronological order and
\* contiguous: each segment ends where the next one starts
C26_SegmentsOrderedContiguous ==
    probe.op = "segment_by_day" =>
        \A i \in 1..(Len(probe.segments) - 1) :
            /\ probe.segments[i].start_time < probe.segments[i + 1].start_time
            /\ probe.segments[i].end_time = probe.segments[i + 1].start_time

\* a call for a shift across two midnights, returned in three segments
C26_Witness ==
    /\ probe.op = "segment_by_day"
    /\ Len(probe.segments) = 3
    /\ probe.segments[1].end_time = probe.segments[2].start_time
    /\ probe.segments[2].end_time = probe.segments[3].start_time

\* C27: for a shift with end after start the segments returned by
\* segment_by_day cover exactly the shift span, split at every midnight
\* crossed: the first segment starts at the shift's start, the last ends at
\* the shift's end, each ends where the next starts and none crosses midnight
C27_SegmentsCoverShiftSpan ==
    probe.op = "segment_by_day" /\ probe.end_time > probe.start_time =>
        LET segs == probe.segments
        IN  /\ segs # << >>
            /\ segs[1].start_time = probe.start_time
            /\ segs[Len(segs)].end_time = probe.end_time
            /\ \A i \in 1..(Len(segs) - 1) : segs[i].end_time = segs[i + 1].start_time
            /\ \A i \in 1..Len(segs) :
                   /\ segs[i].start_time < segs[i].end_time
                   /\ segs[i].end_time <= (DateOf(segs[i].start_time) + 1) * SecondsPerDay

\* all the pay lines of the shift at position i of the request
LinesOfShift(i) == SelectSeq(ResultLines, LAMBDA pl : pl.shift_id = i)

\* C28: for every shift in a result the hours of all the pay lines carrying the
\* shift's id (ordinary, penalty and overtime lines together) sum to the
\* shift's worked_hours, also for timestamps with second resolution and for
\* shifts with paid or unpaid breaks
C28_ShiftLineHoursSumToWorkedHours ==
    Returned =>
        \A i \in 1..Len(shifts) :
            FieldSum(LinesOfShift(i), "hours", Len(LinesOfShift(i))) = worked_hours(shifts[i])

\* C30: every pay line in every result has hours > 0, also for zero-duration
\* shifts, shifts that end before they start and shifts whose unpaid breaks
\* are longer than their span
C30_PayLineHoursPositive ==
    Returned => \A k \in 1..Len(ResultLines) : ResultLines[k].hours > 0

\* a result over a shift of negative worked hours, which has no pay line, and
\* a shift across a midnight whose later segment is left no ordinary hours
C30_Witness ==
    /\ Returned
    /\ \E i, j \in 1..Len(shifts) :
          /\ worked_hours(shifts[i]) < 0
          /\ LinesOfShift(i) = << >>
          /\ shifts[j].start_time = At(6, 16, 0, 0)
          /\ Len(LinesOfShift(j)) = 2

\* the width of one shift in Position: a step for the head of the shift loop,
\* one for each segment and one for the overtime
ShiftWidth == 2 + MaxSegments

\* how far a calculation has got: it grows with every step and has a greatest value
Position ==
    CASE pc = "request"   -> 0
      [] pc = "base_rate" -> 1
      [] pc = "shift"     -> 2 + (shift_idx - 1) * ShiftWidth
      [] pc = "segment"   -> 2 + (shift_idx - 1) * ShiftWidth + seg_idx
      [] pc = "overtime"  -> 1 + shift_idx * ShiftWidth
      [] pc = "allowance" -> 2 + Len(shifts) * ShiftWidth
      [] OTHER            -> 3 + Len(shifts) * ShiftWidth

\* the calculation has a step to take: the guard of one of the actions of Next
\* holds (the rest of each action is assignments, which any state allows)
HasNextStep ==
    \/ pc \in {"request", "base_rate", "allowance"}
    \/ pc \in {"shift", "overtime"} /\ shift_idx \in 1..Len(shifts)
    \/ pc = "segment" /\ seg_idx \in 1..Len(segments)

\* C22: a calculation never panics on well-formed but unusual input (zero
\* shifts, zero-duration shifts, shifts that start or end exactly at a day
\* boundary, employees with no tags) and always terminates with a result or an
\* error value: a calculation that has not returned has a next step to take,
\* every step takes it further towards the end, and at the end the response
\* is a result or an error
C22_NeverPanicsAlwaysTerminates ==
    /\ [](pc # "done" => HasNextStep)
    /\ [](pc = "done" => response.status \in {"ok", "error"})
    /\ [][Position' > Position /\ Position' <= 3 + Len(shifts) * ShiftWidth]_vars

\* a result for an employee with no tags over a zero-duration shift and a shift
\* that ends exactly at midnight
C22_Witness ==
    /\ Returned
    /\ employee.tags = {}
    /\ \E i, j \in 1..Len(shifts) :
          /\ shifts[i].start_time = shifts[i].end_time
          /\ shifts[j].end_time = At(4, 0, 0, 0)
          /\ shifts[j].start_time < shifts[j].end_time
          /\ Len(LinesOfShift(j)) = 1

\* C29: the daily overtime threshold applied to every shift of a calculation
\* is the rule table's daily_threshold_hours: whatever the configured value,
\* a shift's ordinary hours are its worked hours up to that threshold and its
\* overtime hours are the rest
C29_ThresholdFromRuleTable ==
    pc \in {"segment", "overtime"} =>
        LET threshold == config.penalties.overtime.daily_threshold_hours * DecUnit
        IN  /\ overtime_detection.ordinary_hours = Min(total_worked_hours, threshold)
            /\ overtime_detection.overtime_hours = Max(0, total_worked_hours - threshold)

\* what the claim compares of two responses: the pay lines, the totals and the
\* audit steps of a result, or the error
Outcome(resp) ==
    IF resp.status = "ok"
    THEN [status |-> "ok", pay_lines |-> resp.result.pay_lines,
          totals |-> resp.result.totals, steps |-> resp.result.audit_trace.steps]
    ELSE resp

\* C23: calculations running in parallel over the one rule table do not
\* interfere: under any interleaving with another calculation a calculation
\* returns the pay lines, totals and audit steps (or the error) it returns
\* when run alone, and the rule table is left unchanged
C23_ParallelCalculationsDoNotInterfere ==
    /\ config = award_config
    /\ (probe.op = "alone" /\ other # NoCall) =>
           /\ (other.call = 2 /\ pc = "done") => Outcome(response) = Outcome(probe.response)
           /\ (other.call = 1 /\ other.pc = "done") =>
                  Outcome(other.response) = Outcome(probe.response)

\* both calls have returned a result, each with pay lines of its own, the
\* second having run to its end in between the steps of the first
C23_Witness ==
    /\ probe.op = "alone"
    /\ other # NoCall
    /\ other.call = 2
    /\ pc = "done" /\ other.pc = "done"
    /\ response.status = "ok" /\ other.response.status = "ok"
    /\ Len(response.result.pay_lines) = 2
    /\ Len(other.response.result.pay_lines) = 3
    /\ response.result.audit_trace.steps # other.response.result.audit_trace.steps
====
